---------------------------- MODULE Spec2Model ----------------------------
(***************************************************************************)
(* Model of hyperdrive.go: the five Hyperdrive config operations of the    *)
(* cloudflare-go client (List, Create, Get, Update, Delete).               *)
(*                                                                         *)
(* Every operation is a synchronous function of its arguments and of what  *)
(* the API client (api.makeRequestContext, the external collaborator)      *)
(* answers.  Each handler is an operator that returns the invocation's     *)
(* outcome: the requests handed to the API client, the returned value and  *)
(* the returned error.  The state of the model is the last invocation.     *)
(*                                                                         *)
(* Go values:                                                              *)
(*   string          a TLA+ string                                         *)
(*   int             an integer                                            *)
(*   *bool           <<>> for nil, <<b>> for a pointer to b                *)
(*   []T             a sequence (nil and empty are both <<>>)              *)
(*   error           the chain of messages built by %w wrapping, outermost *)
(*                   first; nil is <<>>                                    *)
(* JSON values are tagged pairs <<type, value>>; a JSON object is a         *)
(* function from the keys that are present to JSON values.                 *)
(***************************************************************************)
EXTENDS Integers, Sequences, FiniteSets, TLC

VARIABLES op, rc, args, stub, requests, ret, err

vars == <<op, rc, args, stub, requests, ret, err>>

-----------------------------------------------------------------------------
(* Bounds of the model *)

\* longest "result" array the API client's stub answers with
MaxResults == 2

-----------------------------------------------------------------------------
(* Errors *)

nil == <<>>

\* declared with the API client; hyperdrive.go only returns it, so its text is
\* left opaque
ErrMissingAccountID == <<"ErrMissingAccountID">>
ErrMissingHyperdriveConfigID == <<"required hyperdrive config id is missing">>
ErrMissingHyperdriveConfigName == <<"required hyperdrive config name is missing">>
ErrMissingHyperdriveConfigPassword == <<"required hyperdrive config password is missing">>

\* message constants declared with the API client, used here as wrapping
\* prefixes; their text is left opaque
errUnmarshalError == "errUnmarshalError"
errMakeRequestError == "errMakeRequestError"

\* fmt.Errorf("%s: %w", prefix, e): e wrapped under prefix
Errorf(prefix, e) == <<prefix>> \o e

-----------------------------------------------------------------------------
(* JSON values *)

JStr(s) == <<"string", s>>
JNum(n) == <<"number", n>>
JBool(b) == <<"bool", b>>
JNull == <<"null">>
JObj(f) == <<"object", f>>
JArr(s) == <<"array", s>>

Type(j) == j[1]
Val(j) == j[2]

Has(obj, key) == key \in DOMAIN obj

-----------------------------------------------------------------------------
(* Go zero values of the types of hyperdrive.go *)

ZeroOrigin == [Database |-> "", Host |-> "", Port |-> 0, Scheme |-> "", User |-> ""]
ZeroCaching == [Disabled |-> <<>>, MaxAge |-> 0, StaleWhileRevalidate |-> 0]
ZeroConfig == [ID |-> "", Name |-> "", Origin |-> ZeroOrigin, Caching |-> ZeroCaching]

-----------------------------------------------------------------------------
(* json.Unmarshal into the types of hyperdrive.go, field by field as the    *)
(* struct tags say.  A decoder returns [val, ok]: an absent key or a JSON   *)
(* null leaves the Go zero value, a JSON value of another type is a type    *)
(* error (ok = FALSE) that leaves the field at its zero value while the     *)
(* other fields are still decoded, as encoding/json does and go-json, its   *)
(* drop-in replacement, is documented to do.                                *)

unmarshalString(obj, key) ==
    IF ~Has(obj, key) THEN [val |-> "", ok |-> TRUE]
    ELSE IF Type(obj[key]) = "string" THEN [val |-> Val(obj[key]), ok |-> TRUE]
    ELSE [val |-> "", ok |-> Type(obj[key]) = "null"]

unmarshalInt(obj, key) ==
    IF ~Has(obj, key) THEN [val |-> 0, ok |-> TRUE]
    ELSE IF Type(obj[key]) = "number" THEN [val |-> Val(obj[key]), ok |-> TRUE]
    ELSE [val |-> 0, ok |-> Type(obj[key]) = "null"]

\* Disabled *bool `json:"disabled,omitempty"`
unmarshalBoolPtr(obj, key) ==
    IF ~Has(obj, key) THEN [val |-> <<>>, ok |-> TRUE]
    ELSE IF Type(obj[key]) = "bool" THEN [val |-> <<Val(obj[key])>>, ok |-> TRUE]
    ELSE [val |-> <<>>, ok |-> Type(obj[key]) = "null"]

unmarshalOrigin(j) ==
    IF Type(j) = "object" THEN
        LET database == unmarshalString(Val(j), "database")
            host == unmarshalString(Val(j), "host")
            port == unmarshalInt(Val(j), "port")
            scheme == unmarshalString(Val(j), "scheme")
            user == unmarshalString(Val(j), "user")
        IN [val |-> [Database |-> database.val, Host |-> host.val, Port |-> port.val,
                     Scheme |-> scheme.val, User |-> user.val],
            ok |-> database.ok /\ host.ok /\ port.ok /\ scheme.ok /\ user.ok]
    ELSE [val |-> ZeroOrigin, ok |-> Type(j) = "null"]

unmarshalCaching(j) ==
    IF Type(j) = "object" THEN
        LET disabled == unmarshalBoolPtr(Val(j), "disabled")
            maxAge == unmarshalInt(Val(j), "max_age")
            stale == unmarshalInt(Val(j), "stale_while_revalidate")
        IN [val |-> [Disabled |-> disabled.val, MaxAge |-> maxAge.val,
                     StaleWhileRevalidate |-> stale.val],
            ok |-> disabled.ok /\ maxAge.ok /\ stale.ok]
    ELSE [val |-> ZeroCaching, ok |-> Type(j) = "null"]

unmarshalConfig(j) ==
    IF Type(j) = "object" THEN
        LET id == unmarshalString(Val(j), "id")
            name == unmarshalString(Val(j), "name")
            origin == IF Has(Val(j), "origin") THEN unmarshalOrigin(Val(j).origin)
                      ELSE [val |-> ZeroOrigin, ok |-> TRUE]
            caching == IF Has(Val(j), "caching") THEN unmarshalCaching(Val(j).caching)
                       ELSE [val |-> ZeroCaching, ok |-> TRUE]
        IN [val |-> [ID |-> id.val, Name |-> name.val, Origin |-> origin.val,
                     Caching |-> caching.val],
            ok |-> id.ok /\ name.ok /\ origin.ok /\ caching.ok]
    ELSE [val |-> ZeroConfig, ok |-> Type(j) = "null"]

\* faulty variant: the elements are returned in reverse order
unmarshalConfigs_Reversed(j) ==
    IF Type(j) = "array" THEN
        [val |-> [i \in 1..Len(Val(j)) |->
                    unmarshalConfig(Val(j)[Len(Val(j)) + 1 - i]).val],
         ok |-> \A i \in 1..Len(Val(j)) : unmarshalConfig(Val(j)[i]).ok]
    ELSE [val |-> <<>>, ok |-> Type(j) = "null"]

\* Result []HyperdriveConfig `json:"result"`
unmarshalConfigs(j) ==
    IF Type(j) = "array" THEN
        [val |-> [i \in 1..Len(Val(j)) |-> unmarshalConfig(Val(j)[i]).val],
         ok |-> \A i \in 1..Len(Val(j)) : unmarshalConfig(Val(j)[i]).ok]
    ELSE [val |-> <<>>, ok |-> Type(j) = "null"]

\* the errors of the decoder
SyntaxError == <<"unexpected end of JSON input">>
UnmarshalTypeError == <<"json: cannot unmarshal">>

\* json.Unmarshal(res, &r), r a HyperdriveConfigResponse: [r, err].  Only the
\* Result field of the envelope is declared in hyperdrive.go.
UnmarshalConfigResponse(res) ==
    IF ~res.valid THEN [r |-> [Result |-> ZeroConfig], err |-> SyntaxError]
    ELSE IF Type(res.doc) # "object" THEN
        [r |-> [Result |-> ZeroConfig],
         err |-> IF Type(res.doc) = "null" THEN nil ELSE UnmarshalTypeError]
    ELSE IF ~Has(Val(res.doc), "result") THEN [r |-> [Result |-> ZeroConfig], err |-> nil]
    ELSE LET d == unmarshalConfig(Val(res.doc).result)
         IN [r |-> [Result |-> d.val], err |-> IF d.ok THEN nil ELSE UnmarshalTypeError]

\* json.Unmarshal(res, &hResponse), hResponse a HyperdriveConfigListResponse
UnmarshalListResponse(res) ==
    IF ~res.valid THEN [r |-> [Result |-> <<>>], err |-> SyntaxError]
    ELSE IF Type(res.doc) # "object" THEN
        [r |-> [Result |-> <<>>],
         err |-> IF Type(res.doc) = "null" THEN nil ELSE UnmarshalTypeError]
    ELSE IF ~Has(Val(res.doc), "result") THEN [r |-> [Result |-> <<>>], err |-> nil]
    ELSE LET d == unmarshalConfigs(Val(res.doc).result)
         IN [r |-> [Result |-> d.val], err |-> IF d.ok THEN nil ELSE UnmarshalTypeError]

-----------------------------------------------------------------------------
(* json.Marshal of the parameter objects, field by field as the struct     *)
(* tags say: omitempty leaves out an empty string, a zero int and a nil     *)
(* pointer (never a struct), and the tag "-" leaves the field out.          *)

Keys(pairs) == {pr[1] : pr \in {q \in pairs : q[2]}}

marshalOrigin(o) ==
    LET keys == Keys({<<"database", o.Database # "">>, <<"host", o.Host # "">>,
                      <<"port", o.Port # 0>>, <<"scheme", o.Scheme # "">>,
                      <<"user", o.User # "">>})
    IN JObj([k \in keys |->
              CASE k = "database" -> JStr(o.Database)
                [] k = "host" -> JStr(o.Host)
                [] k = "port" -> JNum(o.Port)
                [] k = "scheme" -> JStr(o.Scheme)
                [] k = "user" -> JStr(o.User)])

\* faulty variant: Disabled is serialized as a plain bool, so omitempty drops false
marshalCaching_OmitFalse(c) ==
    LET keys == Keys({<<"disabled", c.Disabled = <<TRUE>> >>, <<"max_age", c.MaxAge # 0>>,
                      <<"stale_while_revalidate", c.StaleWhileRevalidate # 0>>})
    IN JObj([k \in keys |->
              CASE k = "disabled" -> JBool(c.Disabled[1])
                [] k = "max_age" -> JNum(c.MaxAge)
                [] k = "stale_while_revalidate" -> JNum(c.StaleWhileRevalidate)])

marshalCaching(c) ==
    LET keys == Keys({<<"disabled", c.Disabled # <<>> >>, <<"max_age", c.MaxAge # 0>>,
                      <<"stale_while_revalidate", c.StaleWhileRevalidate # 0>>})
    IN JObj([k \in keys |->
              CASE k = "disabled" -> JBool(c.Disabled[1])
                [] k = "max_age" -> JNum(c.MaxAge)
                [] k = "stale_while_revalidate" -> JNum(c.StaleWhileRevalidate)])

marshalCreateParams(params) ==
    JObj([name |-> JStr(params.Name), password |-> JStr(params.Password),
          origin |-> marshalOrigin(params.Origin),
          caching |-> marshalCaching(params.Caching)])

\* faulty variant: HyperdriveID is serialized as "id"
marshalUpdateParams_WithID(params) ==
    JObj([id |-> JStr(params.HyperdriveID), name |-> JStr(params.Name),
          password |-> JStr(params.Password),
          origin |-> marshalOrigin(params.Origin),
          caching |-> marshalCaching(params.Caching)])

\* HyperdriveID has the tag "-"
marshalUpdateParams(params) ==
    JObj([name |-> JStr(params.Name), password |-> JStr(params.Password),
          origin |-> marshalOrigin(params.Origin),
          caching |-> marshalCaching(params.Caching)])

-----------------------------------------------------------------------------
(* The API client *)

\* a request handed to api.makeRequestContext(ctx, method, uri, params);
\* body is <<>> for a nil params and <<json>> for the serialized params
Request(method, uri, body) == [method |-> method, uri |-> uri, body |-> body]

\* what api.makeRequestContext answers: the stub's bytes or its error
makeRequestContext(s) == [res |-> s.res, err |-> s.err]

\* what an invocation leaves behind
Outcome(reqs, value, e) == [requests |-> reqs, ret |-> value, err |-> e]

-----------------------------------------------------------------------------
(* The five operations *)

\* faulty variant: on a decode error, what was decoded is returned with the error
ListHyperdriveConfigs_PartialOnError(c, params, s) ==
    IF c.Identifier = "" THEN Outcome(<<>>, <<>>, ErrMissingAccountID)
    ELSE
        LET uri == "/accounts/" \o c.Identifier \o "/hyperdrive/configs"
            req == Request("GET", uri, <<>>)
            call == makeRequestContext(s)
            dec == UnmarshalListResponse(call.res)
        IN IF call.err # nil THEN Outcome(<<req>>, <<>>, call.err)
           ELSE IF dec.err # nil THEN
               Outcome(<<req>>, dec.r.Result,
                       Errorf("failed to unmarshal filters JSON data", dec.err))
           ELSE Outcome(<<req>>, dec.r.Result, nil)

ListHyperdriveConfigs(c, params, s) ==
    IF c.Identifier = "" THEN Outcome(<<>>, <<>>, ErrMissingAccountID)
    ELSE
        LET uri == "/accounts/" \o c.Identifier \o "/hyperdrive/configs"
            req == Request("GET", uri, <<>>)
            call == makeRequestContext(s)
            dec == UnmarshalListResponse(call.res)
        IN IF call.err # nil THEN Outcome(<<req>>, <<>>, call.err)
           ELSE IF dec.err # nil THEN
               Outcome(<<req>>, <<>>,
                       Errorf("failed to unmarshal filters JSON data", dec.err))
           ELSE Outcome(<<req>>, dec.r.Result, nil)

\* faulty variant: a failed request is reported under the marker of a decode error
CreateHyperdriveConfig_RequestAsDecode(c, params, s) ==
    IF c.Identifier = "" THEN Outcome(<<>>, ZeroConfig, ErrMissingAccountID)
    ELSE IF params.Name = "" THEN
        Outcome(<<>>, ZeroConfig, ErrMissingHyperdriveConfigName)
    ELSE IF params.Password = "" THEN
        Outcome(<<>>, ZeroConfig, ErrMissingHyperdriveConfigPassword)
    ELSE
        LET uri == "/accounts/" \o c.Identifier \o "/hyperdrive/configs"
            req == Request("POST", uri, <<marshalCreateParams(params)>>)
            call == makeRequestContext(s)
            dec == UnmarshalConfigResponse(call.res)
        IN IF call.err # nil THEN
               Outcome(<<req>>, ZeroConfig, Errorf(errUnmarshalError, call.err))
           ELSE IF dec.err # nil THEN
               Outcome(<<req>>, ZeroConfig, Errorf(errUnmarshalError, dec.err))
           ELSE Outcome(<<req>>, dec.r.Result, nil)

\* faulty variant: the password is checked before the name
CreateHyperdriveConfig_PasswordFirst(c, params, s) ==
    IF c.Identifier = "" THEN Outcome(<<>>, ZeroConfig, ErrMissingAccountID)
    ELSE IF params.Password = "" THEN
        Outcome(<<>>, ZeroConfig, ErrMissingHyperdriveConfigPassword)
    ELSE IF params.Name = "" THEN
        Outcome(<<>>, ZeroConfig, ErrMissingHyperdriveConfigName)
    ELSE
        LET uri == "/accounts/" \o c.Identifier \o "/hyperdrive/configs"
            req == Request("POST", uri, <<marshalCreateParams(params)>>)
            call == makeRequestContext(s)
            dec == UnmarshalConfigResponse(call.res)
        IN IF call.err # nil THEN Outcome(<<req>>, ZeroConfig, call.err)
           ELSE IF dec.err # nil THEN
               Outcome(<<req>>, ZeroConfig, Errorf(errUnmarshalError, dec.err))
           ELSE Outcome(<<req>>, dec.r.Result, nil)

CreateHyperdriveConfig(c, params, s) ==
    IF c.Identifier = "" THEN Outcome(<<>>, ZeroConfig, ErrMissingAccountID)
    ELSE IF params.Name = "" THEN
        Outcome(<<>>, ZeroConfig, ErrMissingHyperdriveConfigName)
    ELSE IF params.Password = "" THEN
        Outcome(<<>>, ZeroConfig, ErrMissingHyperdriveConfigPassword)
    ELSE
        LET uri == "/accounts/" \o c.Identifier \o "/hyperdrive/configs"
            req == Request("POST", uri, <<marshalCreateParams(params)>>)
            call == makeRequestContext(s)
            dec == UnmarshalConfigResponse(call.res)
        IN IF call.err # nil THEN Outcome(<<req>>, ZeroConfig, call.err)
           ELSE IF dec.err # nil THEN
               Outcome(<<req>>, ZeroConfig, Errorf(errUnmarshalError, dec.err))
           ELSE Outcome(<<req>>, dec.r.Result, nil)

\* faulty variant: the config id is checked before the account id
DeleteHyperdriveConfig_IDFirst(c, hyperdriveID, s) ==
    IF hyperdriveID = "" THEN Outcome(<<>>, <<>>, ErrMissingHyperdriveConfigID)
    ELSE IF c.Identifier = "" THEN Outcome(<<>>, <<>>, ErrMissingAccountID)
    ELSE
        LET uri == "/accounts/" \o c.Identifier \o "/hyperdrive/configs/" \o hyperdriveID
            req == Request("DELETE", uri, <<>>)
            call == makeRequestContext(s)
        IN IF call.err # nil THEN
               Outcome(<<req>>, <<>>, Errorf(errMakeRequestError, call.err))
           ELSE Outcome(<<req>>, <<>>, nil)

DeleteHyperdriveConfig(c, hyperdriveID, s) ==
    IF c.Identifier = "" THEN Outcome(<<>>, <<>>, ErrMissingAccountID)
    ELSE IF hyperdriveID = "" THEN Outcome(<<>>, <<>>, ErrMissingHyperdriveConfigID)
    ELSE
        LET uri == "/accounts/" \o c.Identifier \o "/hyperdrive/configs/" \o hyperdriveID
            req == Request("DELETE", uri, <<>>)
            call == makeRequestContext(s)
        IN IF call.err # nil THEN
               Outcome(<<req>>, <<>>, Errorf(errMakeRequestError, call.err))
           ELSE Outcome(<<req>>, <<>>, nil)

\* faulty variant: a failed request is sent a second time
GetHyperdriveConfig_Retry(c, hyperdriveID, s) ==
    IF c.Identifier = "" THEN Outcome(<<>>, ZeroConfig, ErrMissingAccountID)
    ELSE IF hyperdriveID = "" THEN
        Outcome(<<>>, ZeroConfig, ErrMissingHyperdriveConfigID)
    ELSE
        LET uri == "/accounts/" \o c.Identifier \o "/hyperdrive/configs/" \o hyperdriveID
            req == Request("GET", uri, <<>>)
            call == makeRequestContext(s)
            dec == UnmarshalConfigResponse(call.res)
        IN IF call.err # nil THEN Outcome(<<req, req>>, ZeroConfig, makeRequestContext(s).err)
           ELSE IF dec.err # nil THEN
               Outcome(<<req>>, ZeroConfig, Errorf(errUnmarshalError, dec.err))
           ELSE Outcome(<<req>>, dec.r.Result, nil)

\* faulty variant: the config id is not checked
GetHyperdriveConfig_NoIDCheck(c, hyperdriveID, s) ==
    IF c.Identifier = "" THEN Outcome(<<>>, ZeroConfig, ErrMissingAccountID)
    ELSE
        LET uri == "/accounts/" \o c.Identifier \o "/hyperdrive/configs/" \o hyperdriveID
            req == Request("GET", uri, <<>>)
            call == makeRequestContext(s)
            dec == UnmarshalConfigResponse(call.res)
        IN IF call.err # nil THEN Outcome(<<req>>, ZeroConfig, call.err)
           ELSE IF dec.err # nil THEN
               Outcome(<<req>>, ZeroConfig, Errorf(errUnmarshalError, dec.err))
           ELSE Outcome(<<req>>, dec.r.Result, nil)

GetHyperdriveConfig(c, hyperdriveID, s) ==
    IF c.Identifier = "" THEN Outcome(<<>>, ZeroConfig, ErrMissingAccountID)
    ELSE IF hyperdriveID = "" THEN
        Outcome(<<>>, ZeroConfig, ErrMissingHyperdriveConfigID)
    ELSE
        LET uri == "/accounts/" \o c.Identifier \o "/hyperdrive/configs/" \o hyperdriveID
            req == Request("GET", uri, <<>>)
            call == makeRequestContext(s)
            dec == UnmarshalConfigResponse(call.res)
        IN IF call.err # nil THEN Outcome(<<req>>, ZeroConfig, call.err)
           ELSE IF dec.err # nil THEN
               Outcome(<<req>>, ZeroConfig, Errorf(errUnmarshalError, dec.err))
           ELSE Outcome(<<req>>, dec.r.Result, nil)

\* faulty variant: the name and the password are checked as in Create
UpdateHyperdriveConfig_ChecksName(c, params, s) ==
    IF c.Identifier = "" THEN Outcome(<<>>, ZeroConfig, ErrMissingAccountID)
    ELSE IF params.HyperdriveID = "" THEN
        Outcome(<<>>, ZeroConfig, ErrMissingHyperdriveConfigID)
    ELSE IF params.Name = "" THEN
        Outcome(<<>>, ZeroConfig, ErrMissingHyperdriveConfigName)
    ELSE IF params.Password = "" THEN
        Outcome(<<>>, ZeroConfig, ErrMissingHyperdriveConfigPassword)
    ELSE
        LET uri == "/accounts/" \o c.Identifier \o "/hyperdrive/configs/"
                       \o params.HyperdriveID
            req == Request("PUT", uri, <<marshalUpdateParams(params)>>)
            call == makeRequestContext(s)
            dec == UnmarshalConfigResponse(call.res)
        IN IF call.err # nil THEN Outcome(<<req>>, ZeroConfig, call.err)
           ELSE IF dec.err # nil THEN
               Outcome(<<req>>, ZeroConfig, Errorf(errUnmarshalError, dec.err))
           ELSE Outcome(<<req>>, dec.r.Result, nil)

UpdateHyperdriveConfig(c, params, s) ==
    IF c.Identifier = "" THEN Outcome(<<>>, ZeroConfig, ErrMissingAccountID)
    ELSE IF params.HyperdriveID = "" THEN
        Outcome(<<>>, ZeroConfig, ErrMissingHyperdriveConfigID)
    ELSE
        LET uri == "/accounts/" \o c.Identifier \o "/hyperdrive/configs/"
                       \o params.HyperdriveID
            req == Request("PUT", uri, <<marshalUpdateParams(params)>>)
            call == makeRequestContext(s)
            dec == UnmarshalConfigResponse(call.res)
        IN IF call.err # nil THEN Outcome(<<req>>, ZeroConfig, call.err)
           ELSE IF dec.err # nil THEN
               Outcome(<<req>>, ZeroConfig, Errorf(errUnmarshalError, dec.err))
           ELSE Outcome(<<req>>, dec.r.Result, nil)

-----------------------------------------------------------------------------
(* The inputs the invocations are drawn from *)

Identifiers == {"", "acct"}
HyperdriveIDs == {"", "h1"}
Names == {"", "db1"}
Passwords == {"", "pw"}

SampleOrigin == [Database |-> "pg", Host |-> "db.example.com", Port |-> 5432,
                 Scheme |-> "postgres", User |-> "u"]
Cachings == {[Disabled |-> d, MaxAge |-> IF d = <<>> THEN 0 ELSE 60,
              StaleWhileRevalidate |-> 0] : d \in {<<>>, <<FALSE>>, <<TRUE>>}}

CreateParams == [Name : Names, Password : Passwords, Origin : {SampleOrigin},
                 Caching : Cachings]
UpdateParams == [HyperdriveID : HyperdriveIDs, Name : Names, Password : Passwords,
                 Origin : {SampleOrigin}, Caching : Cachings]

\* config objects a response can carry
ConfigA1 == JObj([id |-> JStr("a1")])
ConfigA2 == JObj([id |-> JStr("a2")])
ConfigH1 == JObj([id |-> JStr("h1"), name |-> JStr("db1")])
ConfigFull ==
    JObj([id |-> JStr("h1"), name |-> JStr("db1"),
          origin |-> JObj([database |-> JStr("pg"), host |-> JStr("db.example.com"),
                           port |-> JNum(5432), scheme |-> JStr("postgres"),
                           user |-> JStr("u")]),
          caching |-> JObj([disabled |-> JBool(FALSE), max_age |-> JNum(60)])])
ConfigDisabled == JObj([id |-> JStr("h2"), caching |-> JObj([disabled |-> JBool(TRUE)])])
\* a caching object without the "disabled" key
ConfigMaxAge == JObj([id |-> JStr("h3"), caching |-> JObj([max_age |-> JNum(60)])])
\* a config whose id has the wrong JSON type: name decodes, id does not
ConfigBadID == JObj([id |-> JNum(7), name |-> JStr("db1")])

ListItems == {ConfigA1, ConfigA2}
Arrays == UNION {[1..n -> ListItems] : n \in 0..MaxResults}

Results == {ConfigA1, ConfigH1, ConfigFull, ConfigDisabled, ConfigMaxAge, ConfigBadID,
            JNull}
             \cup {JArr(a) : a \in Arrays}
             \cup {JArr(<<ConfigA1, ConfigBadID>>)}

\* response bodies: a truncated body, and well-formed documents
Bodies == {[valid |-> FALSE]}
            \cup {[valid |-> TRUE, doc |-> JObj([result |-> x])] : x \in Results}
            \cup {[valid |-> TRUE, doc |-> JObj([success |-> JBool(TRUE)])],
                  [valid |-> TRUE, doc |-> JArr(<<>>)]}

\* errors of the API client: connectivity failure, non-success HTTP status
TransportErrors == {<<"connection refused">>, <<"HTTP status 404">>}

\* what the API client can answer: bytes and no error, or no bytes and an error
Stubs == {[res |-> b, err |-> nil] : b \in Bodies}
           \cup {[res |-> [valid |-> FALSE], err |-> e] : e \in TransportErrors}

-----------------------------------------------------------------------------
(* The state machine: the state is the last invocation and its outcome *)

Init ==
    /\ op = "none"
    /\ rc = [Identifier |-> ""]
    /\ args = <<>>
    /\ stub = [res |-> [valid |-> FALSE], err |-> nil]
    /\ requests = <<>>
    /\ ret = <<>>
    /\ err = nil

\* ListHyperdriveConfigs(ctx, rc, params)
List ==
    \E id \in Identifiers, s \in Stubs :
        LET c == [Identifier |-> id]
            o == ListHyperdriveConfigs(c, <<>>, s)
        IN /\ op' = "List"
           /\ rc' = c
           /\ args' = <<>>
           /\ stub' = s
           /\ requests' = o.requests
           /\ ret' = o.ret
           /\ err' = o.err

\* CreateHyperdriveConfig(ctx, rc, params)
Create ==
    \E id \in Identifiers, params \in CreateParams, s \in Stubs :
        LET c == [Identifier |-> id]
            o == CreateHyperdriveConfig(c, params, s)
        IN /\ op' = "Create"
           /\ rc' = c
           /\ args' = params
           /\ stub' = s
           /\ requests' = o.requests
           /\ ret' = o.ret
           /\ err' = o.err

\* GetHyperdriveConfig(ctx, rc, hyperdriveID)
Get ==
    \E id \in Identifiers, hyperdriveID \in HyperdriveIDs, s \in Stubs :
        LET c == [Identifier |-> id]
            o == GetHyperdriveConfig(c, hyperdriveID, s)
        IN /\ op' = "Get"
           /\ rc' = c
           /\ args' = [HyperdriveID |-> hyperdriveID]
           /\ stub' = s
           /\ requests' = o.requests
           /\ ret' = o.ret
           /\ err' = o.err

\* UpdateHyperdriveConfig(ctx, rc, params)
Update ==
    \E id \in Identifiers, params \in UpdateParams, s \in Stubs :
        LET c == [Identifier |-> id]
            o == UpdateHyperdriveConfig(c, params, s)
        IN /\ op' = "Update"
           /\ rc' = c
           /\ args' = params
           /\ stub' = s
           /\ requests' = o.requests
           /\ ret' = o.ret
           /\ err' = o.err

\* DeleteHyperdriveConfig(ctx, rc, hyperdriveID); it returns only an error
Delete ==
    \E id \in Identifiers, hyperdriveID \in HyperdriveIDs, s \in Stubs :
        LET c == [Identifier |-> id]
            o == DeleteHyperdriveConfig(c, hyperdriveID, s)
        IN /\ op' = "Delete"
           /\ rc' = c
           /\ args' = [HyperdriveID |-> hyperdriveID]
           /\ stub' = s
           /\ requests' = o.requests
           /\ ret' = o.ret
           /\ err' = o.err

Next == List \/ Create \/ Get \/ Update \/ Delete

Spec == Init /\ [][Next]_vars

-----------------------------------------------------------------------------
(* What the claims speak of, read off the state *)

Invoked == op # "none"
DecodeOps == {"List", "Create", "Get", "Update"}
ByID == {"Get", "Update", "Delete"}

\* the local precondition checks of the last invocation pass
ValidationPasses ==
    /\ Invoked
    /\ rc.Identifier # ""
    /\ op = "Create" => args.Name # "" /\ args.Password # ""
    /\ op \in ByID => args.HyperdriveID # ""

\* the API client was called and answered with an error
TransportFails == Invoked /\ requests # <<>> /\ stub.err # nil

\* the error of decoding the answered body into the envelope of the operation
DecodeErr ==
    IF op = "List" THEN UnmarshalListResponse(stub.res).err
    ELSE UnmarshalConfigResponse(stub.res).err

\* the API client was called, answered without error, and the body does not decode
DecodeFails ==
    op \in DecodeOps /\ requests # <<>> /\ stub.err = nil /\ DecodeErr # nil

\* the API client was called, answered without error, and the body decodes
DecodeSucceeds ==
    op \in DecodeOps /\ requests # <<>> /\ stub.err = nil /\ DecodeErr = nil

\* the answered body is a document with a "result" of the given JSON type
ResultIs(type) ==
    /\ stub.res.valid
    /\ Type(stub.res.doc) = "object"
    /\ Has(Val(stub.res.doc), "result")
    /\ Type(Val(stub.res.doc).result) = type

StubResult == Val(stub.res.doc).result

-----------------------------------------------------------------------------
(* C1: for each of the five operations and every value of the other        *)
(* arguments, an invocation with an empty account identifier returns        *)
(* ErrMissingAccountID and makes no call to the API client.                 *)
C1_EmptyAccountID ==
    (Invoked /\ rc.Identifier = "") => (err = ErrMissingAccountID /\ requests = <<>>)

C1_Witness ==
    /\ op = "Delete" /\ rc.Identifier = "" /\ args.HyperdriveID = ""
    /\ err = ErrMissingAccountID /\ requests = <<>>

(* C2, as stated: Get, Update and Delete with an empty config id return     *)
(* ErrMissingHyperdriveConfigID for every account identifier, empty or not. *)
C2_AsStated ==
    (op \in ByID /\ args.HyperdriveID = "") => err = ErrMissingHyperdriveConfigID

(* C2, amended: Get, Update and Delete with an empty config id return       *)
(* ErrMissingHyperdriveConfigID for every non-empty account identifier;     *)
(* with an empty account identifier the account check comes first and they  *)
(* return ErrMissingAccountID.                                              *)
C2_EmptyConfigID ==
    (op \in ByID /\ args.HyperdriveID = "") =>
        err = IF rc.Identifier = "" THEN ErrMissingAccountID
              ELSE ErrMissingHyperdriveConfigID

C2_Witness ==
    /\ op = "Get" /\ args.HyperdriveID = "" /\ rc.Identifier # ""
    /\ err = ErrMissingHyperdriveConfigID

(* C3: Create with a non-empty account id: an empty name returns            *)
(* ErrMissingHyperdriveConfigName whatever the password is; a non-empty     *)
(* name with an empty password returns ErrMissingHyperdriveConfigPassword;  *)
(* the password error is returned only when the name is non-empty; and in   *)
(* both failing cases no call to the API client is made.                    *)
C3_CreateValidation ==
    (op = "Create" /\ rc.Identifier # "") =>
        /\ args.Name = "" =>
              err = ErrMissingHyperdriveConfigName /\ requests = <<>>
        /\ (args.Name # "" /\ args.Password = "") =>
              err = ErrMissingHyperdriveConfigPassword /\ requests = <<>>
        /\ err = ErrMissingHyperdriveConfigPassword => args.Name # ""

C3_Witness ==
    /\ op = "Create" /\ rc.Identifier # "" /\ args.Name = "" /\ args.Password = ""
    /\ err = ErrMissingHyperdriveConfigName /\ requests = <<>>

(* C4: when validation passes, the API client call succeeds and the body    *)
(* decodes, List, Create, Get and Update return a nil error and the decoded *)
(* value of the envelope's "result": for Create, Get and Update the config  *)
(* decoded from a "result" object; for List a sequence as long as the       *)
(* "result" array whose i-th element is the config decoded from the i-th    *)
(* element of the array.  The stub {"result": [{"id":"a1"},{"id":"a2"}]}    *)
(* gives List exactly the configs a1, a2 in that order.                     *)
C4_ReturnsResult ==
    DecodeSucceeds =>
        /\ err = nil
        /\ (op = "List" /\ ResultIs("array")) =>
              /\ Len(ret) = Len(Val(StubResult))
              /\ \A i \in 1..Len(ret) : ret[i] = unmarshalConfig(Val(StubResult)[i]).val
        /\ (op = "List" /\ ResultIs("array")
                /\ StubResult = JArr(<<ConfigA1, ConfigA2>>)) =>
              ret = <<[ZeroConfig EXCEPT !.ID = "a1"], [ZeroConfig EXCEPT !.ID = "a2"]>>
        /\ (op # "List" /\ ResultIs("object")) => ret = unmarshalConfig(StubResult).val
        /\ (op # "List" /\ ResultIs("object") /\ StubResult = ConfigH1) =>
              ret = [ZeroConfig EXCEPT !.ID = "h1", !.Name = "db1"]

C4_Witness ==
    /\ op = "List" /\ DecodeSucceeds /\ ResultIs("array")
    /\ StubResult = JArr(<<ConfigA1, ConfigA2>>)
    /\ Len(ret) = 2 /\ ret[1].ID = "a1" /\ ret[2].ID = "a2" /\ err = nil

(* C5: every request handed to the API client has the verb, path and body   *)
(* fixed by the operation: List = GET /accounts/{acct}/hyperdrive/configs   *)
(* without body; Create = POST on that path with the create params as body; *)
(* Get = GET, Update = PUT, Delete = DELETE on                              *)
(* /accounts/{acct}/hyperdrive/configs/{id}, with a body only for Update;   *)
(* the body of Update has the keys name, password, origin and caching and   *)
(* no key for the config id, which is in the path.                          *)
BodyKeys == {"name", "password", "origin", "caching"}

BodyCarries(r, params) ==
    /\ Len(r.body) = 1
    /\ Type(r.body[1]) = "object"
    /\ DOMAIN Val(r.body[1]) = BodyKeys
    /\ Val(r.body[1]).name = JStr(params.Name)
    /\ Val(r.body[1]).password = JStr(params.Password)

C5_RequestShape ==
    \A i \in 1..Len(requests) :
        LET r == requests[i]
            collection == "/accounts/" \o rc.Identifier \o "/hyperdrive/configs"
        IN /\ op = "List" => r.method = "GET" /\ r.uri = collection /\ r.body = <<>>
           /\ op = "Create" =>
                 r.method = "POST" /\ r.uri = collection /\ BodyCarries(r, args)
           /\ op \in ByID => r.uri = collection \o "/" \o args.HyperdriveID
           /\ op = "Get" => r.method = "GET" /\ r.body = <<>>
           /\ op = "Delete" => r.method = "DELETE" /\ r.body = <<>>
           /\ op = "Update" => r.method = "PUT" /\ BodyCarries(r, args)

C5_Witness ==
    /\ op = "Update" /\ Len(requests) = 1
    /\ requests[1].method = "PUT"
    /\ requests[1].uri = "/accounts/acct/hyperdrive/configs/h1"
    /\ ~Has(Val(requests[1].body[1]), "id")

(* C6: whenever List, Create, Get or Update returns a non-nil error         *)
(* (validation, transport or decode), the value returned with it is the     *)
(* empty value: the config with all fields unset, or the empty sequence     *)
(* for List; never what was decoded of the response before the error.       *)
C6_AllOrNothing ==
    (op \in DecodeOps /\ err # nil) =>
        ret = IF op = "List" THEN <<>> ELSE ZeroConfig

\* a decode failure of List after one element of the array was decoded
C6_Witness ==
    /\ op = "List" /\ DecodeFails
    /\ UnmarshalListResponse(stub.res).r.Result # <<>>
    /\ err # nil /\ ret = <<>>

(* C7: for List, Create, Get and Update, when the API client answers        *)
(* without error but the body fails to decode, the returned error is the    *)
(* decoder's error wrapped under a decode marker; and no error returned     *)
(* when the API client call itself fails is wrapped under a decode marker.  *)
DecodeMarkers == {errUnmarshalError, "failed to unmarshal filters JSON data"}

C7_DecodeErrorDistinct ==
    /\ DecodeFails =>
          /\ Len(err) > 1
          /\ err[1] \in DecodeMarkers
          /\ Tail(err) = DecodeErr
          /\ DecodeErr \in {SyntaxError, UnmarshalTypeError}
    /\ TransportFails => (err # nil /\ err[1] \notin DecodeMarkers)

C7_Witness ==
    /\ op = "Create" /\ DecodeFails /\ ~stub.res.valid
    /\ err = <<errUnmarshalError>> \o SyntaxError

(* C8: every invocation is a single round trip: it calls the API client     *)
(* exactly once when local validation passes and not at all when it fails;  *)
(* when the API client answers with an error or the body fails to decode,   *)
(* no further call is made and the invocation returns that error (as it is, *)
(* or wrapped).                                                             *)
IsSuffix(e, chain) ==
    Len(e) <= Len(chain) /\ SubSeq(chain, Len(chain) - Len(e) + 1, Len(chain)) = e

C8_SingleRoundTrip ==
    Invoked =>
        /\ Len(requests) = IF ValidationPasses THEN 1 ELSE 0
        /\ TransportFails => IsSuffix(stub.err, err)
        /\ DecodeFails => IsSuffix(DecodeErr, err)

C8_Witness ==
    /\ op = "Get" /\ ValidationPasses /\ TransportFails
    /\ Len(requests) = 1 /\ err = stub.err

(* C9: the only local checks of Update are account id non-empty and config  *)
(* id non-empty: when both are non-empty it issues its PUT request for      *)
(* every name and password, the empty strings included; and it never        *)
(* returns ErrMissingHyperdriveConfigName or                                *)
(* ErrMissingHyperdriveConfigPassword, which only Create returns.           *)
C9_UpdateChecks ==
    /\ (op = "Update" /\ rc.Identifier # "" /\ args.HyperdriveID # "") =>
          Len(requests) = 1 /\ requests[1].method = "PUT"
    /\ err \in {ErrMissingHyperdriveConfigName, ErrMissingHyperdriveConfigPassword} =>
          op = "Create"

C9_Witness ==
    /\ op = "Update" /\ rc.Identifier # "" /\ args.HyperdriveID # ""
    /\ args.Name = "" /\ args.Password = ""
    /\ Len(requests) = 1 /\ requests[1].method = "PUT"

(* C10: the caching "disabled" field keeps three states through decode and  *)
(* encode.  Decode: a caching object without "disabled" gives nil, with     *)
(* false a pointer to false, with true a pointer to true.  Encode then      *)
(* decode: the caching object sent in the body of Create and Update decodes *)
(* to the Disabled of the params, so nil is not collapsed into false.       *)
C10_TriState ==
    /\ (op \in {"Create", "Get", "Update"} /\ DecodeSucceeds /\ ResultIs("object")
           /\ Has(Val(StubResult), "caching")
           /\ Type(Val(StubResult).caching) = "object") =>
          LET caching == Val(Val(StubResult).caching)
          IN ret.Caching.Disabled =
                 IF ~Has(caching, "disabled") THEN <<>>
                 ELSE IF caching.disabled = JBool(FALSE) THEN <<FALSE>>
                 ELSE <<TRUE>>
    /\ (op \in {"Create", "Update"} /\ requests # <<>>) =>
          unmarshalCaching(Val(requests[1].body[1]).caching).val.Disabled
              = args.Caching.Disabled

\* a Create that sends a pointer to false and is answered without "disabled"
C10_Witness ==
    /\ op = "Create" /\ DecodeSucceeds /\ ResultIs("object")
    /\ args.Caching.Disabled = <<FALSE>>
    /\ Val(Val(requests[1].body[1]).caching).disabled = JBool(FALSE)
    /\ StubResult = ConfigMaxAge
    /\ ret.Caching.Disabled = <<>>

=============================================================================
